---- MODULE Spec2Model ----
(***************************************************************************)
(* FluidAPI (fluid_api_agent/main.py): a natural-language task is turned   *)
(* into an HTTP request by an agent, the agent's text is parsed and        *)
(* validated, the request is executed with bounded retry, and the          *)
(* response is wrapped in an envelope.  The model follows one call of the  *)
(* module-level fluid_api_request or of batch_fluid_api_request, step by   *)
(* step.  The agent and the HTTP peer are the environment: what they       *)
(* answer is chosen nondeterministically at each call.                     *)
(*                                                                         *)
(* Python values of mixed type (None, True, False, str) are modelled by    *)
(* their repr as strings, so that an argument bound to the wrong parameter *)
(* keeps its value.                                                        *)
(***************************************************************************)
EXTENDS Integers, Sequences, FiniteSets, TLC

\* ------------------------------------------------------------------ bounds
MaxTasks == 3
MaxAgentCalls == 4
MaxFairTasks == 2

\* --------------------------------------------------------------- constants
LRU_MAXSIZE == 1
PARSE_MAX_ATTEMPTS == 3
EXEC_MAX_ATTEMPTS == 3
WAIT_MULTIPLIER == 2
WAIT_MIN == 2
WAIT_MAX == 10

PyNone == "None"
PyTrue == "True"
PyFalse == "False"
DEFAULT_MODEL_NAME == "gpt-4.1"
Docs == "DOCS"

\* Python truthiness of a value given by its repr.
Truthy(v) == v \notin {PyNone, PyFalse, ""}

Max(a, b) == IF a >= b THEN a ELSE b
Min(a, b) == IF a <= b THEN a ELSE b

RECURSIVE Pow(_, _)
Pow(b, e) == IF e = 0 THEN 1 ELSE b * Pow(b, e - 1)

\* ------------------------------------------------------------- agent texts
TextGet == "{\"method\":\"GET\",\"url\":\"https://a/x\",\"headers\":{},\"body\":{}}"
TextPost == "{\"method\":\"POST\",\"url\":\"https://a/y\",\"headers\":{},\"body\":{\"k\":1}}"
TextNoUrl == "{\"method\":\"GET\",\"headers\":{},\"body\":{}}"
TextBadType == "{\"method\":7,\"url\":\"https://a/x\",\"headers\":{},\"body\":{}}"
TextArray == "[1]"
TextProse == "Here is the request: {\"method\":\"GET\"}"
TextTruncated == "{\"method\":\"GET\","

AgentTexts == {TextGet, TextPost, TextNoUrl, TextBadType, TextArray, TextProse, TextTruncated}

Fld(n, t, v) == [name |-> n, type |-> t, val |-> v]
NoValue == [kind |-> "none", fields |-> {}]

\* json.loads on the texts above: a decoded value, or JSONDecodeError.
JsonLoads(text) ==
    CASE text = TextGet ->
           [ok |-> TRUE, value |-> [kind |-> "dict", fields |->
              {Fld("method", "str", "GET"), Fld("url", "str", "https://a/x"),
               Fld("headers", "dict", "{}"), Fld("body", "dict", "{}")}]]
      [] text = TextPost ->
           [ok |-> TRUE, value |-> [kind |-> "dict", fields |->
              {Fld("method", "str", "POST"), Fld("url", "str", "https://a/y"),
               Fld("headers", "dict", "{}"), Fld("body", "dict", "{k:1}")}]]
      [] text = TextNoUrl ->
           [ok |-> TRUE, value |-> [kind |-> "dict", fields |->
              {Fld("method", "str", "GET"),
               Fld("headers", "dict", "{}"), Fld("body", "dict", "{}")}]]
      [] text = TextBadType ->
           [ok |-> TRUE, value |-> [kind |-> "dict", fields |->
              {Fld("method", "int", "7"), Fld("url", "str", "https://a/x"),
               Fld("headers", "dict", "{}"), Fld("body", "dict", "{}")}]]
      [] text = TextArray ->
           [ok |-> TRUE, value |-> [kind |-> "list", fields |-> {}]]
      [] OTHER -> [ok |-> FALSE, value |-> NoValue]

\* ---------------------------------------------------------------- failures
Exc(t) == [type |-> t, cause |-> "none"]
NoExc == Exc("none")
\* tenacity without reraise=True: the last attempt's failure is wrapped.
RetryError(e) == [type |-> "RetryError", cause |-> e.type]

\* ------------------------------------------------------------ schema types
NoRequest == [method |-> "none", url |-> "none", headers |-> "none", body |-> "none"]

FieldType(f) == IF f \in {"method", "url"} THEN "str" ELSE "dict"
RequiredFields == {"method", "url", "headers", "body"}

FieldOk(value, f) == \E e \in value.fields : e.name = f /\ e.type = FieldType(f)
FieldVal(value, f) == (CHOOSE e \in value.fields : e.name = f).val

\* Mutant: headers and body declared with a default, so that a mapping
\* without them passes.
APIRequestSchemaDefaults(value) ==
    IF value.kind # "dict"
    THEN [ok |-> FALSE, request |-> NoRequest, exc |-> Exc("TypeError")]
    ELSE IF /\ \A f \in {"method", "url"} : FieldOk(value, f)
            /\ \A e \in value.fields : e.name \in RequiredFields => e.type = FieldType(e.name)
    THEN [ok |-> TRUE,
          request |-> [f \in RequiredFields |->
                         IF \E e \in value.fields : e.name = f
                         THEN FieldVal(value, f) ELSE "{}"],
          exc |-> NoExc]
    ELSE [ok |-> FALSE, request |-> NoRequest, exc |-> Exc("ValidationError")]

\* APIRequestSchema(**output)
APIRequestSchema(value) ==
    IF value.kind # "dict"
    THEN [ok |-> FALSE, request |-> NoRequest, exc |-> Exc("TypeError")]
    ELSE IF \A f \in RequiredFields : FieldOk(value, f)
    THEN [ok |-> TRUE,
          request |-> [method |-> FieldVal(value, "method"), url |-> FieldVal(value, "url"),
                       headers |-> FieldVal(value, "headers"), body |-> FieldVal(value, "body")],
          exc |-> NoExc]
    ELSE [ok |-> FALSE, request |-> NoRequest, exc |-> Exc("ValidationError")]

FieldOr(value, f) ==
    IF \E e \in value.fields : e.name = f THEN FieldVal(value, f) ELSE "missing"
\* Mutant: the model is built without validation, whatever fields are there.
validate_agent_output_unchecked(output) ==
    [ok |-> TRUE,
     request |-> [method |-> FieldOr(output, "method"), url |-> FieldOr(output, "url"),
                  headers |-> FieldOr(output, "headers"), body |-> FieldOr(output, "body")],
     exc |-> NoExc]

validate_agent_output(output) == APIRequestSchema(output)

\* ------------------------------------------------------------------- retry
stop_after_attempt(max_attempt_number, attempt_number) ==
    attempt_number >= max_attempt_number

\* Mutant: the same wait before every retry (no exponential growth).
wait_fixed(attempt_number) == Max(0, WAIT_MIN)

\* wait_exponential(multiplier=2, min=2, max=10), tenacity's exp_base being 2.
wait_exponential(attempt_number) ==
    Max(Max(0, WAIT_MIN),
        Min(WAIT_MULTIPLIER * Pow(2, attempt_number - 1), WAIT_MAX))

\* Mutants: a retry budget of one attempt more.
ParseStopLate(attempt_number) == stop_after_attempt(PARSE_MAX_ATTEMPTS + 1, attempt_number)
ExecStopLate(attempt_number) == stop_after_attempt(EXEC_MAX_ATTEMPTS + 1, attempt_number)

\* Mutant: one retry state shared by all calls of the decorated function.
SharedRetryState(previous) == previous

\* Each call of a decorated function gets a retry state of its own, whose
\* attempt_number starts anew whatever earlier calls used.
NewRetryState(previous) == 0

\* Mutant: no stop condition, the executor retries for ever.
ExecStopNever(attempt_number) == FALSE

ParseStop(attempt_number) == stop_after_attempt(PARSE_MAX_ATTEMPTS, attempt_number)
ExecStop(attempt_number) == stop_after_attempt(EXEC_MAX_ATTEMPTS, attempt_number)

\* What the retry decorator does with the result of an attempt.  No retry=
\* predicate is given, so every exception is retried; no reraise=True is
\* given, so the last failure leaves wrapped in a RetryError.
ParseRetry(ok, attempt_number) ==
    IF ok THEN "return"
    ELSE IF ParseStop(attempt_number) THEN "retry_error"
    ELSE "wait"

\* Mutant: the decorator retries on the result too, so a successful attempt
\* is followed by another one while the budget lasts.
ExecRetryOnResult(ok, attempt_number) ==
    IF ExecStop(attempt_number) THEN (IF ok THEN "return" ELSE "retry_error")
    ELSE "wait"

ExecRetry(ok, attempt_number) ==
    IF ok THEN "return"
    ELSE IF ExecStop(attempt_number) THEN "retry_error"
    ELSE "wait"

\* ------------------------------------------------------------ HTTP peer
TransportErrors == {"ClientConnectionError", "TimeoutError"}
Statuses == {200, 300, 404, 500}
Bodies == {"object", "array", "text"}

HttpError(e) == [kind |-> "error", error |-> e, status |-> 0, body |-> "none"]
HttpResponse(st, b) == [kind |-> "response", error |-> "none", status |-> st, body |-> b]

AllHttpOutcomes ==
    {HttpError(e) : e \in TransportErrors}
    \cup {HttpResponse(st, b) : st \in Statuses, b \in Bodies}

\* The peers a batch is run against: one transport error, one error status,
\* one response that decodes and one that does not.
BatchHttpOutcomes ==
    {HttpError("ClientConnectionError"), HttpResponse(404, "text"),
     HttpResponse(200, "object"), HttpResponse(200, "text")}
BatchAgentTexts == {TextGet, TextNoUrl, TextProse}

\* Mutant: the status check is left out.
raise_for_status_missing(status) == FALSE

\* response.raise_for_status(): aiohttp raises ClientResponseError when the
\* status is 400 or above (ClientResponse.ok is 400 > status).
raise_for_status(status) == status >= 400

NoData == [kind |-> "none", of |-> "none"]
\* await response.text()
ResponseText(body) == [ok |-> TRUE, data |-> [kind |-> "str", of |-> body], exc |-> NoExc]
\* await response.json()
ResponseJson(body) ==
    CASE body = "object" -> [ok |-> TRUE, data |-> [kind |-> "dict", of |-> body], exc |-> NoExc]
      [] body = "array" -> [ok |-> TRUE, data |-> [kind |-> "list", of |-> body], exc |-> NoExc]
      [] OTHER -> [ok |-> FALSE, data |-> NoData, exc |-> Exc("JSONDecodeError")]

NoEnvelope == [request |-> NoRequest, response |-> NoData, status_code |-> 0,
               elapsed_time |-> 0]

\* Mutant: the envelope echoes the request without its body.
APIResponseSchemaNoBody(request, response_data, status, elapsed) ==
    IF response_data.kind \in {"dict", "str"}
    THEN [ok |-> TRUE,
          envelope |-> [request |-> [request EXCEPT !.body = "{}"],
                        response |-> response_data,
                        status_code |-> status, elapsed_time |-> elapsed],
          exc |-> NoExc]
    ELSE [ok |-> FALSE, envelope |-> NoEnvelope, exc |-> Exc("ValidationError")]

\* APIResponseSchema(request=..., response=..., status_code=...,
\* elapsed_time=...): response: Union[Dict[str, Any], str]
APIResponseSchema(request, response_data, status, elapsed) ==
    IF response_data.kind \in {"dict", "str"}
    THEN [ok |-> TRUE,
          envelope |-> [request |-> request, response |-> response_data,
                        status_code |-> status, elapsed_time |-> elapsed],
          exc |-> NoExc]
    ELSE [ok |-> FALSE, envelope |-> NoEnvelope, exc |-> Exc("ValidationError")]

Failed(e) == [ok |-> FALSE, envelope |-> NoEnvelope, exc |-> e]

\* The body of execute_async_api_call for one attempt, given what the peer
\* does and the time from start_time to the arrival of the response.
ExecBody(request, return_raw, outcome, elapsed) ==
    IF outcome.kind = "error" THEN Failed(Exc(outcome.error))
    ELSE IF raise_for_status(outcome.status) THEN Failed(Exc("ClientResponseError"))
    ELSE LET read == IF Truthy(return_raw) THEN ResponseText(outcome.body)
                     ELSE ResponseJson(outcome.body)
         IN  IF ~read.ok THEN Failed(read.exc)
             ELSE APIResponseSchema(request, read.data, outcome.status, elapsed)

\* ------------------------------------------------------------ serialising
Sep == <<[tok |-> "sep", env |-> NoEnvelope]>>
\* output.model_dump_json(indent=4): a text holding the envelope.
model_dump_json(env) == <<[tok |-> "json", env |-> env]>>

RECURSIVE Join(_)
\* "\n\n".join(responses)
Join(list) ==
    IF Len(list) = 0 THEN <<>>
    ELSE IF Len(list) = 1 THEN list[1]
    ELSE list[1] \o Sep \o Join(Tail(list))

\* ------------------------------------------------------------------- state
VARIABLES
    call,           \* the entry point called: "single", "batch" or "run"
    args,           \* the caller's arguments
    idx,            \* batch loop: index of the current task
    pc,             \* position in the code
    self,           \* the FluidAPI instance of the current task
    agent,          \* the agent handle initialize_agent returned
    response,       \* the agent's text
    parsed,         \* json.loads result
    api_request,    \* the validated APIRequestSchema
    parse_attempt,  \* tenacity attempt_number of parse_agent_response
    exec_attempt,   \* tenacity attempt_number of execute_async_api_call
    parseLog,       \* texts decoded by the attempts of this parse call
    parseWaits,     \* backoff waits of this parse call
    httpLog,        \* attempts of this execute call
    execWaits,      \* backoff waits of this execute call
    inflight,       \* the request now on the wire, or NoRequest
    stages,         \* stages started for the current task, in order
    raised,         \* the failure the failing stage raised
    failure,        \* the failure propagating to the caller
    envelope,       \* the envelope execute_async_api_call returned
    taskLog,        \* outcome of every task so far, in processing order
    responses,      \* batch: the list of serialised envelopes
    output,         \* what the entry point returned or raised
    active,         \* the tasks whose pipeline has started and not ended
    httpTotal,      \* HTTP attempts made since the entry point was called
    self_id,        \* the identity of the instance self
    cache,          \* the lru_cache of initialize_agent, most recent first
    agentCalls,     \* the calls of initialize_agent so far
    open_sessions,  \* aiohttp sessions now open
    sessions_opened,\* sessions opened by this execute call
    now,            \* the clock (loop.time())
    start_time      \* start_time of the current attempt

vars == <<call, args, idx, pc, self, agent, response, parsed, api_request,
          parse_attempt, exec_attempt, parseLog, parseWaits, httpLog, execWaits,
          inflight, stages, raised, failure, envelope, taskLog, responses, output,
          active, httpTotal, self_id, cache, agentCalls, open_sessions, sessions_opened,
          now, start_time>>

NoInstance == [model_name |-> "none", documentation |-> "none",
               verbose |-> "none", return_raw |-> "none"]
NoAgent == [model_name |-> "none", system_prompt |-> "none"]
NoOutput == [status |-> "none", text |-> <<>>, exc |-> NoExc]

TaskList(n) == [i \in 1..n |-> i]

ArgSets ==
    [tasks : {TaskList(1)}, model_name : {DEFAULT_MODEL_NAME},
     documentation : {PyNone, Docs}, return_raw : {PyFalse, PyTrue},
     verbose : {PyFalse, PyTrue}]
BatchArgSets ==
    [tasks : {TaskList(n) : n \in 0..MaxTasks}, model_name : {DEFAULT_MODEL_NAME},
     documentation : {PyNone, Docs}, return_raw : {PyFalse, PyTrue},
     verbose : {PyFalse, PyTrue}]

Init ==
    /\ call \in {"single", "batch", "run"}
    /\ args \in (IF call = "batch" THEN BatchArgSets ELSE ArgSets)
    /\ idx = 1
    /\ pc = "call"
    /\ self = NoInstance
    /\ agent = NoAgent
    /\ response = ""
    /\ parsed = NoValue
    /\ api_request = NoRequest
    /\ parse_attempt = 0
    /\ exec_attempt = 0
    /\ parseLog = <<>>
    /\ parseWaits = <<>>
    /\ httpLog = <<>>
    /\ execWaits = <<>>
    /\ inflight = NoRequest
    /\ stages = <<>>
    /\ raised = NoExc
    /\ failure = NoExc
    /\ envelope = NoEnvelope
    /\ taskLog = <<>>
    /\ responses = <<>>
    /\ output = NoOutput
    /\ active = {}
    /\ httpTotal = 0
    /\ self_id = 0
    /\ cache = <<>>
    /\ agentCalls = <<>>
    /\ open_sessions = 0
    /\ sessions_opened = 0
    /\ now = 0
    /\ start_time = 0


\* ------------------------------------------------- the validator by itself
\* What a caller can hand to validate_agent_output: a mapping in which each
\* of the four fields is absent, of the declared type, or of another type,
\* with or without a field the schema does not know; or no mapping at all.
GoodVals(f) ==
    CASE f = "method" -> {"GET", "POST"}
      [] f = "url" -> {"https://a/x"}
      [] f = "headers" -> {"{}"}
      [] OTHER -> {"{}", "{k:1}"}
BadFld(f) == IF FieldType(f) = "str" THEN Fld(f, "int", "7") ELSE Fld(f, "list", "[]")
FieldChoices(f) ==
    {{}} \cup {{Fld(f, FieldType(f), v)} : v \in GoodVals(f)} \cup {{BadFld(f)}}
ValidateInputs ==
    {[kind |-> "dict", fields |-> m \cup u \cup h \cup b] :
        m \in FieldChoices("method"), u \in FieldChoices("url"),
        h \in FieldChoices("headers"), b \in FieldChoices("body")}
    \cup {[kind |-> "list", fields |-> {}]}

InitValidate ==
    /\ call = "validate"
    /\ args \in {a \in ArgSets : a.documentation = PyNone /\ a.return_raw = PyFalse}
    /\ idx = 1
    /\ pc = "validate"
    /\ self = NoInstance
    /\ agent = NoAgent
    /\ response = ""
    /\ parsed \in ValidateInputs
    /\ api_request = NoRequest
    /\ parse_attempt = 0
    /\ exec_attempt = 0
    /\ parseLog = <<>>
    /\ parseWaits = <<>>
    /\ httpLog = <<>>
    /\ execWaits = <<>>
    /\ inflight = NoRequest
    /\ stages = <<>>
    /\ raised = NoExc
    /\ failure = NoExc
    /\ envelope = NoEnvelope
    /\ taskLog = <<>>
    /\ responses = <<>>
    /\ output = NoOutput
    /\ active = {1}
    /\ httpTotal = 0
    /\ self_id = 0
    /\ cache = <<>>
    /\ agentCalls = <<>>
    /\ open_sessions = 0
    /\ sessions_opened = 0
    /\ now = 0
    /\ start_time = 0

\* ---------------------------------------------- initialize_agent by itself
InitAgent ==
    /\ call = "agent"
    /\ args \in {a \in ArgSets : a.documentation = PyNone /\ a.return_raw = PyFalse
                                 /\ a.verbose = PyFalse}
    /\ idx = 1
    /\ pc = "agent"
    /\ self = NoInstance
    /\ agent = NoAgent
    /\ response = ""
    /\ parsed = NoValue
    /\ api_request = NoRequest
    /\ parse_attempt = 0
    /\ exec_attempt = 0
    /\ parseLog = <<>>
    /\ parseWaits = <<>>
    /\ httpLog = <<>>
    /\ execWaits = <<>>
    /\ inflight = NoRequest
    /\ stages = <<>>
    /\ raised = NoExc
    /\ failure = NoExc
    /\ envelope = NoEnvelope
    /\ taskLog = <<>>
    /\ responses = <<>>
    /\ output = NoOutput
    /\ active = {}
    /\ httpTotal = 0
    /\ self_id = 0
    /\ cache = <<>>
    /\ agentCalls = <<>>
    /\ open_sessions = 0
    /\ sessions_opened = 0
    /\ now = 0
    /\ start_time = 0

\* ---------------------------------------------------- the executor by itself
\* execute_async_api_call(api_request, return_raw, verbose) called on a
\* validated request, at any reading of the loop's clock.
ExecRequests ==
    {[method |-> "GET", url |-> "https://a/x", headers |-> "{}", body |-> "{}"],
     [method |-> "POST", url |-> "https://a/y", headers |-> "{}", body |-> "{k:1}"]}
ClockReadings == {0, 5}

InitExec ==
    /\ call = "execute"
    /\ args \in {a \in ArgSets : a.documentation = PyNone /\ a.verbose = PyFalse}
    /\ idx = 1
    /\ pc = "send"
    /\ self = [model_name |-> args.model_name, documentation |-> args.documentation,
               verbose |-> args.verbose, return_raw |-> args.return_raw]
    /\ agent = NoAgent
    /\ response = ""
    /\ parsed = NoValue
    /\ api_request \in ExecRequests
    /\ parse_attempt = 0
    /\ exec_attempt = 0
    /\ parseLog = <<>>
    /\ parseWaits = <<>>
    /\ httpLog = <<>>
    /\ execWaits = <<>>
    /\ inflight = NoRequest
    /\ stages = <<>>
    /\ raised = NoExc
    /\ failure = NoExc
    /\ envelope = NoEnvelope
    /\ taskLog = <<>>
    /\ responses = <<>>
    /\ output = NoOutput
    /\ active = {1}
    /\ httpTotal = 0
    /\ self_id = 0
    /\ cache = <<>>
    /\ agentCalls = <<>>
    /\ open_sessions = 0
    /\ sessions_opened = 0
    /\ now \in ClockReadings
    /\ start_time = 0

\* ------------------------------------------------------------ construction
\* FluidAPI.__init__
FluidAPI(model_name, documentation, verbose, return_raw) ==
    [model_name |-> model_name, documentation |-> documentation,
     verbose |-> verbose, return_raw |-> return_raw]

\* The instance the module-level fluid_api_request(task, model_name,
\* documentation, return_raw, verbose) builds.
RequestInstance(model_name, documentation, return_raw, verbose) ==
    FluidAPI(model_name, documentation, verbose, return_raw)

\* The instance a batch task runs on: the batch passes (task, documentation,
\* return_raw, verbose) by position, and the parameters after task are
\* model_name, documentation, return_raw, verbose (default False).
BatchInstance(documentation, return_raw, verbose) ==
    RequestInstance(documentation, return_raw, verbose, PyFalse)

\* FluidAPI.initialize_agent: the documentation is appended when truthy.
initialize_agent(inst) ==
    [model_name |-> inst.model_name,
     system_prompt |-> IF Truthy(inst.documentation) THEN inst.documentation ELSE "base"]

\* Mutant: a memo keyed by no arguments: whatever is memoised is returned
\* to any instance.
lru_cache_unkeyed(c, key, inst) ==
    IF c # <<>>
    THEN [handle |-> c[1].handle, built |-> FALSE, cache |-> c]
    ELSE [handle |-> initialize_agent(inst), built |-> TRUE,
          cache |-> <<[key |-> key, handle |-> initialize_agent(inst)]>>]

\* @lru_cache(maxsize=1) around initialize_agent(self): the key is the
\* instance (hashed by identity); a hit returns the memoised handle, a miss
\* builds one and keeps the most recent LRU_MAXSIZE entries.
lru_cache(c, key, inst) ==
    IF \E i \in 1..Len(c) : c[i].key = key
    THEN LET i == CHOOSE i \in 1..Len(c) : c[i].key = key
         IN  [handle |-> c[i].handle, built |-> FALSE,
              cache |-> <<c[i]>> \o SelectSeq(c, LAMBDA e : e.key # key)]
    ELSE LET h == initialize_agent(inst)
             all == <<[key |-> key, handle |-> h]>> \o c
         IN  [handle |-> h, built |-> TRUE,
              cache |-> SubSeq(all, 1, Min(LRU_MAXSIZE, Len(all)))]

\* Orchestrator instances alive at the same time: different configurations,
\* and two instances (1 and 4) that are configured alike.
Instances ==
    <<FluidAPI(DEFAULT_MODEL_NAME, PyNone, PyFalse, PyFalse),
      FluidAPI("gpt-4o", Docs, PyFalse, PyFalse),
      FluidAPI(DEFAULT_MODEL_NAME, Docs, PyFalse, PyFalse),
      FluidAPI(DEFAULT_MODEL_NAME, PyNone, PyFalse, PyFalse)>>

\* self.initialize_agent() called on any of the instances.
InitializeAgentCall ==
    /\ pc = "agent" /\ call = "agent"
    /\ Len(agentCalls) < MaxAgentCalls
    /\ \E id \in 1..Len(Instances) :
         LET m == lru_cache(cache, id, Instances[id])
         IN  /\ self' = Instances[id]
             /\ self_id' = id
             /\ agent' = m.handle
             /\ cache' = m.cache
             /\ agentCalls' = Append(agentCalls, [id |-> id, built |-> m.built,
                                                   handle |-> m.handle])
    /\ UNCHANGED <<call, args, idx, pc, response, parsed, api_request, parse_attempt,
                   exec_attempt, parseLog, parseWaits, httpLog, execWaits, inflight,
                   stages, raised, failure, envelope, taskLog, responses, output>>
    /\ UNCHANGED <<active, httpTotal, open_sessions, sessions_opened, now, start_time>>

\* Mutant: the session is closed on the success path only.
SessionExitOnSuccess(n, ok) == IF ok THEN n - 1 ELSE n

\* async with aiohttp.ClientSession() as session: leaving the block closes
\* the session, whether the body returned or raised.
SessionExit(n, ok) == n - 1

\* Mutant: the start time is taken once, before the first attempt.
StartTimeOnce(previous, attempt_number, t) == IF attempt_number = 1 THEN t ELSE previous

\* start_time = asyncio.get_event_loop().time(), the first statement of the
\* function body, which every attempt runs again.
StartTime(previous, attempt_number, t) == t

\* Time an attempt takes from start_time to the arrival of the response.
\* A direct call of execute_async_api_call is followed with attempts of
\* different lengths; inside the pipeline every attempt takes one unit.
Durations == {0, 1, 2}
UnitDurations == {1}
DurationsOf(c) == IF c = "execute" THEN Durations ELSE UnitDurations

TextsOf(c) == IF c = "batch" THEN BatchAgentTexts ELSE AgentTexts
HttpOutcomesOf(c) == IF c \in {"batch", "execute"} THEN BatchHttpOutcomes ELSE AllHttpOutcomes

\* The outcome of the current task's pipeline, recorded when it ends.
Finish(ok, env, exc) ==
    /\ taskLog' = Append(taskLog, [task |-> args.tasks[idx], ok |-> ok, envelope |-> env, exc |-> exc])
    /\ active' = active \ {idx}

\* ----------------------------------------------------------------- actions
\* fluid_api_request (module level): build the instance, start the pipeline.
SingleCall ==
    /\ pc = "call" /\ call = "single"
    /\ self' = RequestInstance(args.model_name, args.documentation, args.return_raw, args.verbose)
    /\ pc' = "agent"
    /\ UNCHANGED <<call, args, idx, agent, response, parsed, api_request, parse_attempt,
                   exec_attempt, parseLog, parseWaits, httpLog, execWaits, inflight, stages,
                   raised, failure, envelope, taskLog, responses, output>>
    /\ self_id' = 1
    /\ active' = active \cup {idx}
    /\ UNCHANGED <<httpTotal, cache, agentCalls, open_sessions, sessions_opened, now, start_time>>

\* The coroutine object a call of an async def gives when it is not awaited.
Coroutine == <<[tok |-> "coroutine", env |-> NoEnvelope]>>

\* FluidAPI(...).run(task): response = self.process_task_with_agent(task=task)
\* is not awaited, so no step of the pipeline runs and nothing can be raised
\* inside the try block; run returns the coroutine object.
RunCall ==
    /\ pc = "call" /\ call = "run"
    /\ self' = FluidAPI(args.model_name, args.documentation, args.verbose, args.return_raw)
    /\ output' = [status |-> "returned", text |-> Coroutine, exc |-> NoExc]
    /\ pc' = "done"
    /\ UNCHANGED <<call, args, idx, agent, response, parsed, api_request, parse_attempt,
                   exec_attempt, parseLog, parseWaits, httpLog, execWaits, inflight, stages,
                   raised, failure, envelope, taskLog, responses>>
    /\ self_id' = 1
    /\ UNCHANGED <<active, httpTotal, cache, agentCalls, open_sessions, sessions_opened, now, start_time>>

\* batch_fluid_api_request: responses = []
BatchCall ==
    /\ pc = "call" /\ call = "batch"
    /\ responses' = <<>>
    /\ idx' = 1
    /\ pc' = "loop"
    /\ UNCHANGED <<call, args, self, agent, response, parsed, api_request, parse_attempt,
                   exec_attempt, parseLog, parseWaits, httpLog, execWaits, inflight, stages,
                   raised, failure, envelope, taskLog, output>>
    /\ UNCHANGED <<active, httpTotal, self_id, cache, agentCalls, open_sessions, sessions_opened, now, start_time>>

\* Mutant: the loop does not wait for a task that is sleeping between two
\* attempts and starts the next one beside it.
BatchNextOverlapping ==
    /\ \/ pc = "loop" /\ idx <= Len(args.tasks) /\ idx' = idx
       \/ pc \in {"parse_wait", "exec_wait"} /\ idx < Len(args.tasks) /\ idx' = idx + 1
    /\ self' = BatchInstance(args.documentation, args.return_raw, args.verbose)
    /\ agent' = NoAgent
    /\ response' = ""
    /\ parsed' = NoValue
    /\ api_request' = NoRequest
    /\ parse_attempt' = NewRetryState(parse_attempt)
    /\ exec_attempt' = NewRetryState(exec_attempt)
    /\ parseLog' = <<>>
    /\ parseWaits' = <<>>
    /\ httpLog' = <<>>
    /\ execWaits' = <<>>
    /\ stages' = <<>>
    /\ raised' = NoExc
    /\ failure' = NoExc
    /\ envelope' = NoEnvelope
    /\ pc' = "agent"
    /\ UNCHANGED <<call, args, inflight, taskLog, responses, output>>
    /\ self_id' = idx'
    /\ active' = active \cup {idx'}
    /\ sessions_opened' = 0
    /\ start_time' = 0
    /\ UNCHANGED <<httpTotal, cache, agentCalls, open_sessions, now>>

\* The loop body starts the next task: fluid_api_request(task, documentation,
\* return_raw, verbose) with fresh locals.
BatchNext ==
    /\ pc = "loop" /\ idx <= Len(args.tasks)
    /\ self' = BatchInstance(args.documentation, args.return_raw, args.verbose)
    /\ agent' = NoAgent
    /\ response' = ""
    /\ parsed' = NoValue
    /\ api_request' = NoRequest
    /\ parse_attempt' = NewRetryState(parse_attempt)
    /\ exec_attempt' = NewRetryState(exec_attempt)
    /\ parseLog' = <<>>
    /\ parseWaits' = <<>>
    /\ httpLog' = <<>>
    /\ execWaits' = <<>>
    /\ stages' = <<>>
    /\ raised' = NoExc
    /\ failure' = NoExc
    /\ envelope' = NoEnvelope
    /\ pc' = "agent"
    /\ UNCHANGED <<call, args, idx, inflight, taskLog, responses, output>>
    /\ self_id' = idx
    /\ active' = active \cup {idx}
    /\ sessions_opened' = 0
    /\ start_time' = 0
    /\ UNCHANGED <<httpTotal, cache, agentCalls, open_sessions, now>>

\* process_task_with_agent: agent = self.initialize_agent(); agent.run(task)
AgentRun ==
    /\ pc = "agent"
    /\ LET m == lru_cache(cache, self_id, self)
       IN  /\ agent' = m.handle
           /\ cache' = m.cache
           /\ agentCalls' = Append(agentCalls, [id |-> self_id, built |-> m.built,
                                                 handle |-> m.handle])
    /\ stages' = Append(stages, "agent")
    /\ \/ \E text \in TextsOf(call) :
            /\ response' = text
            /\ pc' = "parse"
            /\ UNCHANGED <<raised, failure, taskLog, active>>
       \/ /\ raised' = Exc("AgentError")
          /\ failure' = Exc("AgentError")
          /\ Finish(FALSE, NoEnvelope, Exc("AgentError"))
          /\ pc' = "raise"
          /\ UNCHANGED response
    /\ UNCHANGED <<call, args, idx, self, parsed, api_request, parse_attempt, exec_attempt,
                   parseLog, parseWaits, httpLog, execWaits, inflight, envelope,
                   responses, output>>
    /\ UNCHANGED <<httpTotal, self_id, open_sessions, sessions_opened, now, start_time>>

\* One attempt of parse_agent_response under its retry decorator.
ParseAttempt ==
    /\ pc = "parse"
    /\ LET n == parse_attempt + 1
           r == JsonLoads(response)
       IN  /\ parse_attempt' = n
           /\ parseLog' = Append(parseLog, response)
           /\ stages' = Append(stages, "parse")
           /\ LET d == ParseRetry(r.ok, n)
              IN  CASE d = "return" ->
                         /\ parsed' = r.value
                         /\ pc' = "validate"
                         /\ UNCHANGED <<raised, failure, taskLog, active>>
                    [] d = "retry_error" ->
                         /\ raised' = Exc("JSONDecodeError")
                         /\ failure' = RetryError(Exc("JSONDecodeError"))
                         /\ Finish(FALSE, NoEnvelope, RetryError(Exc("JSONDecodeError")))
                         /\ pc' = "raise"
                         /\ UNCHANGED parsed
                    [] OTHER ->
                         /\ pc' = "parse_wait"
                         /\ UNCHANGED <<parsed, raised, failure, taskLog, active>>
    /\ UNCHANGED <<call, args, idx, self, agent, response, api_request, exec_attempt,
                   parseWaits, httpLog, execWaits, inflight, envelope, responses, output>>
    /\ UNCHANGED <<httpTotal, self_id, cache, agentCalls, open_sessions, sessions_opened, now, start_time>>

\* The backoff sleep between two attempts of parse_agent_response.
ParseWait ==
    /\ pc = "parse_wait"
    /\ parseWaits' = Append(parseWaits, wait_exponential(parse_attempt))
    /\ pc' = "parse"
    /\ UNCHANGED <<call, args, idx, self, agent, response, parsed, api_request, parse_attempt,
                   exec_attempt, parseLog, httpLog, execWaits, inflight, stages, raised,
                   failure, envelope, taskLog, responses, output>>
    /\ now' = now + wait_exponential(parse_attempt)
    /\ UNCHANGED <<active, httpTotal, self_id, cache, agentCalls, open_sessions, sessions_opened, start_time>>

\* validate_agent_output(parse_agent_response(...))
Validate ==
    /\ pc = "validate"
    /\ stages' = Append(stages, "validate")
    /\ LET v == validate_agent_output(parsed)
       IN  IF v.ok
           THEN /\ api_request' = v.request
                /\ pc' = "send"
                /\ UNCHANGED <<raised, failure, taskLog, active>>
           ELSE /\ raised' = v.exc
                /\ failure' = v.exc
                /\ Finish(FALSE, NoEnvelope, v.exc)
                /\ pc' = "raise"
                /\ UNCHANGED api_request
    /\ UNCHANGED <<call, args, idx, self, agent, response, parsed, parse_attempt, exec_attempt,
                   parseLog, parseWaits, httpLog, execWaits, inflight, envelope,
                   responses, output>>
    /\ UNCHANGED <<httpTotal, self_id, cache, agentCalls, open_sessions, sessions_opened, now, start_time>>

\* One attempt of execute_async_api_call: the session opens, the request is sent.
HttpSend ==
    /\ pc = "send"
    /\ exec_attempt' = exec_attempt + 1
    /\ inflight' = api_request
    /\ stages' = Append(stages, "http")
    /\ pc' = "recv"
    /\ UNCHANGED <<call, args, idx, self, agent, response, parsed, api_request, parse_attempt,
                   parseLog, parseWaits, httpLog, execWaits, raised, failure, envelope,
                   taskLog, responses, output>>
    /\ httpTotal' = httpTotal + 1
    /\ open_sessions' = open_sessions + 1
    /\ sessions_opened' = sessions_opened + 1
    /\ start_time' = StartTime(start_time, exec_attempt + 1, now)
    /\ UNCHANGED <<active, self_id, cache, agentCalls, now>>

\* The attempt ends: the peer answers or the transport fails, the body of
\* execute_async_api_call runs to its return or raise, and the retry
\* decorator decides what follows.
HttpReceive ==
    /\ pc = "recv"
    /\ \E o \in HttpOutcomesOf(call), d \in DurationsOf(call) :
         LET r == ExecBody(api_request, self.return_raw, o, (now + d) - start_time)
         IN  /\ httpLog' = Append(httpLog, [outcome |-> o, sent |-> inflight,
                                            ok |-> r.ok, exc |-> r.exc,
                                            session |-> sessions_opened,
                                            began |-> now, duration |-> d])
             /\ now' = now + d
             /\ inflight' = NoRequest
             /\ LET todo == ExecRetry(r.ok, exec_attempt)
                IN  CASE todo = "return" ->
                           /\ envelope' = r.envelope
                           /\ Finish(TRUE, r.envelope, NoExc)
                           /\ pc' = "return"
                           /\ UNCHANGED <<raised, failure>>
                      [] todo = "retry_error" ->
                           /\ raised' = r.exc
                           /\ failure' = RetryError(r.exc)
                           /\ Finish(FALSE, NoEnvelope, RetryError(r.exc))
                           /\ pc' = "raise"
                           /\ UNCHANGED envelope
                      [] OTHER ->
                           /\ pc' = "exec_wait"
                           /\ UNCHANGED <<raised, failure, envelope, taskLog, active>>
    /\ UNCHANGED <<call, args, idx, self, agent, response, parsed, api_request, parse_attempt,
                   exec_attempt, parseLog, parseWaits, execWaits, stages, responses, output>>
    /\ open_sessions' = SessionExit(open_sessions, httpLog'[Len(httpLog')].ok)
    /\ UNCHANGED <<httpTotal, self_id, cache, agentCalls, sessions_opened, start_time>>

\* The backoff sleep between two attempts of execute_async_api_call.
ExecWait ==
    /\ pc = "exec_wait"
    /\ execWaits' = Append(execWaits, wait_exponential(exec_attempt))
    /\ pc' = "send"
    /\ UNCHANGED <<call, args, idx, self, agent, response, parsed, api_request, parse_attempt,
                   exec_attempt, parseLog, parseWaits, httpLog, inflight, stages, raised,
                   failure, envelope, taskLog, responses, output>>
    /\ now' = now + wait_exponential(exec_attempt)
    /\ UNCHANGED <<active, httpTotal, self_id, cache, agentCalls, open_sessions, sessions_opened, start_time>>

\* fluid_api_request returns output.model_dump_json(indent=4) to its caller.
SingleReturn ==
    /\ pc = "return" /\ call = "single"
    /\ output' = [status |-> "returned", text |-> model_dump_json(envelope), exc |-> NoExc]
    /\ pc' = "done"
    /\ UNCHANGED <<call, args, idx, self, agent, response, parsed, api_request, parse_attempt,
                   exec_attempt, parseLog, parseWaits, httpLog, execWaits, inflight, stages,
                   raised, failure, envelope, taskLog, responses>>
    /\ UNCHANGED <<active, httpTotal, self_id, cache, agentCalls, open_sessions, sessions_opened, now, start_time>>

\* The except/raise blocks of process_task_with_agent and fluid_api_request
\* hand the failure on to the caller.
SingleRaise ==
    /\ pc = "raise" /\ call = "single"
    /\ output' = [status |-> "raised", text |-> <<>>, exc |-> failure]
    /\ pc' = "done"
    /\ UNCHANGED <<call, args, idx, self, agent, response, parsed, api_request, parse_attempt,
                   exec_attempt, parseLog, parseWaits, httpLog, execWaits, inflight, stages,
                   raised, failure, envelope, taskLog, responses>>
    /\ UNCHANGED <<active, httpTotal, self_id, cache, agentCalls, open_sessions, sessions_opened, now, start_time>>

\* Batch loop: responses.append(response)
BatchAppend ==
    /\ pc = "return" /\ call = "batch"
    /\ responses' = Append(responses, model_dump_json(envelope))
    /\ idx' = idx + 1
    /\ pc' = "loop"
    /\ UNCHANGED <<call, args, self, agent, response, parsed, api_request, parse_attempt,
                   exec_attempt, parseLog, parseWaits, httpLog, execWaits, inflight, stages,
                   raised, failure, envelope, taskLog, output>>
    /\ UNCHANGED <<active, httpTotal, self_id, cache, agentCalls, open_sessions, sessions_opened, now, start_time>>

\* Mutant: the except branch keeps the failed task's position with an empty entry.
BatchSkipPlaceholder ==
    /\ pc = "raise" /\ call = "batch"
    /\ responses' = Append(responses, <<>>)
    /\ idx' = idx + 1
    /\ pc' = "loop"
    /\ UNCHANGED <<call, args, self, agent, response, parsed, api_request, parse_attempt,
                   exec_attempt, parseLog, parseWaits, httpLog, execWaits, inflight, stages,
                   raised, failure, envelope, taskLog, output>>
    /\ UNCHANGED <<active, httpTotal, self_id, cache, agentCalls, open_sessions, sessions_opened, now, start_time>>

\* Mutant: the except branch re-raises, so the first failing task ends the batch.
BatchSkipRaises ==
    /\ pc = "raise" /\ call = "batch"
    /\ output' = [status |-> "raised", text |-> <<>>, exc |-> failure]
    /\ pc' = "done"
    /\ UNCHANGED <<call, args, idx, self, agent, response, parsed, api_request, parse_attempt,
                   exec_attempt, parseLog, parseWaits, httpLog, execWaits, inflight, stages,
                   raised, failure, envelope, taskLog, responses>>
    /\ UNCHANGED <<active, httpTotal, self_id, cache, agentCalls, open_sessions, sessions_opened, now, start_time>>

\* Batch loop: except Exception: ... continue
BatchSkip ==
    /\ pc = "raise" /\ call = "batch"
    /\ idx' = idx + 1
    /\ pc' = "loop"
    /\ UNCHANGED <<call, args, self, agent, response, parsed, api_request, parse_attempt,
                   exec_attempt, parseLog, parseWaits, httpLog, execWaits, inflight, stages,
                   raised, failure, envelope, taskLog, responses, output>>
    /\ UNCHANGED <<active, httpTotal, self_id, cache, agentCalls, open_sessions, sessions_opened, now, start_time>>

\* Batch: return "\n\n".join(responses)
BatchReturn ==
    /\ pc = "loop" /\ idx > Len(args.tasks)
    /\ output' = [status |-> "returned", text |-> Join(responses), exc |-> NoExc]
    /\ pc' = "done"
    /\ UNCHANGED <<call, args, idx, self, agent, response, parsed, api_request, parse_attempt,
                   exec_attempt, parseLog, parseWaits, httpLog, execWaits, inflight, stages,
                   raised, failure, envelope, taskLog, responses>>
    /\ UNCHANGED <<active, httpTotal, self_id, cache, agentCalls, open_sessions, sessions_opened, now, start_time>>

Next ==
    \/ SingleCall \/ RunCall \/ BatchCall \/ BatchNext
    \/ AgentRun \/ ParseAttempt \/ ParseWait \/ Validate
    \/ HttpSend \/ HttpReceive \/ ExecWait
    \/ SingleReturn \/ SingleRaise \/ BatchAppend \/ BatchSkip \/ BatchReturn

Spec == Init /\ [][Next]_vars

\* initialize_agent called on several instances in any order.
NextAgent == InitializeAgentCall
SpecAgent == InitAgent /\ [][NextAgent]_vars

\* execute_async_api_call called by itself, its attempts of any length.
NextExec == HttpSend \/ HttpReceive \/ ExecWait
SpecExec == InitExec /\ [][NextExec]_vars

\* Every agent call and every HTTP attempt eventually returns or fails, and
\* the interpreter goes on to the next statement: no enabled step is put off
\* for ever.
InitFair == Init /\ Len(args.tasks) <= MaxFairTasks
SpecFair == InitFair /\ [][Next]_vars /\ WF_vars(Next)

\* validate_agent_output called by itself on any mapping.
NextValidate == Validate
SpecValidate == InitValidate /\ [][NextValidate]_vars


\* ================================================================== claims
ExecRunning == pc \in {"send", "recv", "exec_wait"}
\* execute_async_api_call was called for the current task and has ended.
ExecEnded == httpLog # <<>> /\ ~ExecRunning
AllAttemptsFailed == \A i \in 1..Len(httpLog) : ~httpLog[i].ok

\* C1: when every HTTP attempt of a call of execute_async_api_call fails,
\* the call makes exactly 3 attempts and then fails without an envelope;
\* no call ever makes a 4th attempt.
C1_AlwaysFailingGivesUpAfterThree ==
    /\ Len(httpLog) <= 3
    /\ exec_attempt <= 3
    /\ (ExecEnded /\ AllAttemptsFailed) =>
          /\ Len(httpLog) = 3
          /\ exec_attempt = 3
          /\ envelope = NoEnvelope
          /\ failure # NoExc
          /\ pc \in {"raise", "loop", "done"}
          /\ ~taskLog[Len(taskLog)].ok

C1_Witness ==
    /\ pc = "raise"
    /\ Len(httpLog) = 3
    /\ AllAttemptsFailed
    /\ httpLog[1].outcome.kind = "error"
    /\ httpLog[3].outcome.status = 500

\* C2: when the first k attempts fail (k = 0, 1, 2) and attempt k+1
\* succeeds, the call returns the envelope attempt k+1 produced and makes no
\* attempt after it: a successful attempt is always the last one of its call.
C2_RetryThenSucceed ==
    /\ \A i \in 1..Len(httpLog) : httpLog[i].ok =>
          /\ i = Len(httpLog)
          /\ i <= 3
          /\ \A j \in 1..(i - 1) : ~httpLog[j].ok
          /\ ~ExecRunning
          /\ exec_attempt = i
          /\ inflight = NoRequest
          /\ envelope.status_code = httpLog[i].outcome.status
          /\ envelope.response.of = httpLog[i].outcome.body
          /\ envelope.request = httpLog[i].sent
    /\ envelope # NoEnvelope =>
          (httpLog # <<>> /\ httpLog[Len(httpLog)].ok)

C2_Witness ==
    /\ pc = "return"
    /\ Len(httpLog) = 3
    /\ ~httpLog[1].ok /\ ~httpLog[2].ok /\ httpLog[3].ok
    /\ envelope # NoEnvelope

\* The texts that are JSON documents, listed by hand.
ValidJsonTexts == {TextGet, TextPost, TextNoUrl, TextBadType, TextArray}
ParseRunning == pc \in {"parse", "parse_wait"}
ParseEnded == parseLog # <<>> /\ ~ParseRunning

\* C3: parse_agent_response on a text that is not JSON decodes that same
\* text exactly 3 times and then fails; on a JSON text it returns the decoded
\* value after exactly 1 attempt and without a backoff wait.
C3_ParseAttempts ==
    /\ Len(parseLog) <= 3
    /\ \A i \in 1..Len(parseLog) : parseLog[i] = response
    /\ ParseEnded =>
          IF response \in ValidJsonTexts
          THEN /\ Len(parseLog) = 1
               /\ parse_attempt = 1
               /\ parseWaits = <<>>
               /\ parsed # NoValue
               /\ parsed = JsonLoads(response).value
               /\ "validate" \in {stages[i] : i \in 1..Len(stages)} \/ pc = "validate"
          ELSE /\ Len(parseLog) = 3
               /\ parse_attempt = 3
               /\ parsed = NoValue
               /\ raised = Exc("JSONDecodeError")
               /\ failure # NoExc
               /\ pc \in {"raise", "loop", "done"}

C3_Witness ==
    /\ pc = "raise"
    /\ response = TextProse
    /\ Len(parseLog) = 3
    /\ Len(parseWaits) = 2


\* The envelopes of the tasks that succeeded so far, in processing order.
OkEntries == SelectSeq(taskLog, LAMBDA e : e.ok)
BatchDone == call = "batch" /\ pc = "done"

\* C4: the output of batch_fluid_api_request is exactly the envelopes of the
\* tasks that succeeded, in input order, one per successful task, separated
\* by blank lines, with no entry or placeholder for a failed task.
C4_BatchOutputIsSucceededInOrder ==
    /\ call = "batch" =>
          /\ Len(responses) = (IF pc = "return" THEN Len(OkEntries) - 1 ELSE Len(OkEntries))
          /\ \A j \in 1..Len(responses) :
                responses[j] = <<[tok |-> "json", env |-> OkEntries[j].envelope]>>
          /\ \A j \in 1..Len(taskLog) : taskLog[j].task = args.tasks[j]
    /\ BatchDone =>
          /\ output.status = "returned"
          /\ Len(taskLog) = Len(args.tasks)
          /\ Len(output.text) = (IF OkEntries = <<>> THEN 0 ELSE 2 * Len(OkEntries) - 1)
          /\ \A j \in 1..Len(OkEntries) :
                /\ output.text[2 * j - 1].tok = "json"
                /\ output.text[2 * j - 1].env = OkEntries[j].envelope
                /\ OkEntries[j].envelope # NoEnvelope
          /\ \A j \in 1..(Len(OkEntries) - 1) : output.text[2 * j].tok = "sep"

\* Three tasks, the second fails, the first and the third succeed: the
\* output holds two envelopes, the first task's before the third's.
C4_Witness ==
    /\ BatchDone
    /\ Len(args.tasks) = 3
    /\ taskLog[1].ok /\ ~taskLog[2].ok /\ taskLog[3].ok
    /\ Len(output.text) = 3
    /\ output.text[1].env = taskLog[1].envelope
    /\ output.text[3].env = taskLog[3].envelope

\* C5: a failure of task i at any stage never prevents tasks i+1..N from
\* being processed: every task is processed exactly once, in order, and the
\* batch call returns normally, with an empty output when every task fails.
C5_BatchFailureIsolation ==
    call = "batch" =>
       /\ output.status # "raised"
       /\ Len(taskLog) <= Len(args.tasks)
       /\ \A j \in 1..Len(taskLog) : taskLog[j].task = j
       /\ pc = "loop" => Len(taskLog) = idx - 1
       /\ pc \in {"return", "raise"} => Len(taskLog) = idx
       /\ pc \in {"agent", "parse", "parse_wait", "validate", "send", "recv", "exec_wait"}
             => Len(taskLog) = idx - 1
       /\ pc = "done" =>
             /\ output.status = "returned"
             /\ Len(taskLog) = Len(args.tasks)
             /\ (\A j \in 1..Len(taskLog) : ~taskLog[j].ok) => output.text = <<>>

\* Task 1 fails at the parse stage, task 2 at validation, task 3 is still
\* processed and succeeds, and the batch returns.
C5_Witness ==
    /\ BatchDone
    /\ Len(taskLog) = 3
    /\ taskLog[1].exc = RetryError(Exc("JSONDecodeError"))
    /\ taskLog[2].exc = Exc("ValidationError")
    /\ taskLog[3].ok
    /\ output.status = "returned"


\* C6: every task of a batch runs under the batch caller's configuration:
\* the documentation, return_raw and verbose of the task's instance are the
\* batch call's arguments and the model name is the default.
C6_BatchTaskUsesCallerConfig ==
    (call = "batch" /\ self # NoInstance) =>
       /\ self.documentation = args.documentation
       /\ self.return_raw = args.return_raw
       /\ self.verbose = args.verbose
       /\ self.model_name = DEFAULT_MODEL_NAME

\* C7: in the single-task pipeline the failure the caller observes is the
\* failure the failing stage raised, and no envelope is returned with it.
C7_FailureReachesCallerUnchanged ==
    (call = "single" /\ pc = "done" /\ output.status = "raised") =>
       /\ output.exc = raised
       /\ output.text = <<>>

StageSet == {stages[i] : i \in 1..Len(stages)}
StageCount(st) == Cardinality({i \in 1..Len(stages) : stages[i] = st})
\* The texts that are JSON objects of the request shape, listed by hand.
RequestTexts == {TextGet, TextPost}

\* C8: within one task the stages run in the order agent, parse, validate,
\* execute, each only after the previous one succeeded; the agent is called
\* once, validation is attempted once, and no HTTP request is sent for a
\* task whose agent call, parse or validation failed.
C8_StagesInOrder ==
    /\ stages # <<>> => stages[1] = "agent"
    /\ \A i \in 2..Len(stages) :
          /\ stages[i] # "agent"
          /\ stages[i] = "parse" => stages[i - 1] \in {"agent", "parse"}
          /\ stages[i] = "validate" => stages[i - 1] = "parse"
          /\ stages[i] = "http" => stages[i - 1] \in {"validate", "http"}
    /\ StageCount("agent") <= 1
    /\ StageCount("validate") <= 1
    /\ "parse" \in StageSet => (response \in AgentTexts /\ raised # Exc("AgentError"))
    /\ "validate" \in StageSet => (response \in ValidJsonTexts /\ parsed # NoValue)
    /\ "http" \in StageSet => (response \in RequestTexts /\ api_request # NoRequest)
    /\ response \notin RequestTexts =>
          (httpLog = <<>> /\ exec_attempt = 0 /\ inflight = NoRequest)
    /\ Len(httpLog) + (IF pc = "recv" THEN 1 ELSE 0) = StageCount("http")

\* Validation fails for a JSON object without url: the task ends there.
C8_Witness ==
    /\ pc = "raise"
    /\ response = TextNoUrl
    /\ stages = <<"agent", "parse", "validate">>
    /\ raised = Exc("ValidationError")

Is2xx(o) == o.kind = "response" /\ o.status \in 200..299

\* C9 as stated: every returned envelope carries a 2xx status, and a
\* response with any other status makes the attempt fail.
C9_EnvelopeStatusIs2xx ==
    /\ envelope # NoEnvelope => envelope.status_code \in 200..299
    /\ \A i \in 1..Len(httpLog) :
          (httpLog[i].outcome.kind = "response" /\ ~Is2xx(httpLog[i].outcome))
             => ~httpLog[i].ok

\* C9 amended: every returned envelope carries a status below 400; a
\* response with status 400 or above makes the attempt fail before an
\* envelope is built and counts as a failed attempt for retry.
C9_EnvelopeStatusBelow400 ==
    /\ envelope # NoEnvelope => envelope.status_code \in 1..399
    /\ \A j \in 1..Len(taskLog) : taskLog[j].ok => taskLog[j].envelope.status_code \in 1..399
    /\ \A i \in 1..Len(httpLog) :
          (httpLog[i].outcome.kind = "response" /\ httpLog[i].outcome.status >= 400) =>
             /\ ~httpLog[i].ok
             /\ httpLog[i].exc = Exc("ClientResponseError")
             /\ \/ i < Len(httpLog)
                \/ (i < 3 /\ ExecRunning)
                \/ (i = 3 /\ failure = RetryError(Exc("ClientResponseError")))

\* An envelope with status 300 is returned after an attempt that got a 404.
C9_Witness ==
    /\ pc = "return"
    /\ Len(httpLog) = 2
    /\ httpLog[1].outcome.status = 404
    /\ envelope.status_code = 300

\* C10: once an attempt has received a 2xx response the request is never
\* sent again: a call of execute_async_api_call leads to at most one 2xx
\* answer, and no attempt follows it.
C10_NoResendAfter2xx ==
    /\ Cardinality({i \in 1..Len(httpLog) : Is2xx(httpLog[i].outcome)}) <= 1
    /\ \A i \in 1..Len(httpLog) :
          Is2xx(httpLog[i].outcome) => (i = Len(httpLog) /\ pc # "recv")


\* C11: when FluidAPI.run(task) returns normally the whole pipeline (agent
\* call, parse, validate, HTTP call) has run to completion and the value
\* returned is the resulting envelope.
C11_RunReturnsEnvelope ==
    (call = "run" /\ pc = "done" /\ output.status = "returned") =>
       /\ stages # <<>>
       /\ stages[1] = "agent"
       /\ stages[Len(stages)] = "http"
       /\ envelope # NoEnvelope
       /\ output.text[1].tok # "coroutine"
       /\ output.text[1].env = envelope


\* C12: during batch_fluid_api_request at most one task is in progress and
\* at most one HTTP request is in flight: every step of task i+1, its agent
\* call included, comes after task i returned its envelope or failed for
\* good, retries and backoff waits included.
C12_OneTaskAtATime ==
    call = "batch" =>
       /\ Cardinality(active) <= 1
       /\ active \subseteq {idx}
       /\ pc \in {"agent", "parse", "parse_wait", "validate", "send", "recv", "exec_wait"} =>
             /\ active = {idx}
             /\ Len(taskLog) = idx - 1
             /\ \A j \in 1..(idx - 1) : taskLog[j].task = j
       /\ pc \in {"call", "loop", "return", "raise", "done"} => active = {}
       /\ inflight # NoRequest => (pc = "recv" /\ active = {idx} /\ inflight = api_request)
       /\ pc = "recv" => inflight # NoRequest
       /\ open_sessions = (IF pc = "recv" THEN 1 ELSE 0)

\* Task 2 sleeps between two HTTP attempts after task 1 ended in 3 attempts.
C12_Witness ==
    /\ call = "batch"
    /\ idx = 2
    /\ pc = "exec_wait"
    /\ Len(taskLog) = 1
    /\ httpTotal = 4
    /\ active = {2}


TasksStarted == Len(taskLog) + Cardinality(active)

\* C13: retry budgets are local to each step of each task: every call of
\* the parser and of the executor starts with a fresh budget of 3 attempts
\* whatever earlier tasks or the other step used, so a batch of N tasks makes
\* at most 3*N HTTP attempts and at most 3 for any single task.
C13_RetryBudgetsAreLocal ==
    /\ httpTotal <= 3 * TasksStarted
    /\ httpTotal <= 3 * Len(args.tasks)
    /\ Len(httpLog) <= 3 /\ Len(parseLog) <= 3
    /\ pc = "agent" => (parse_attempt = 0 /\ exec_attempt = 0)
    /\ parse_attempt = Len(parseLog)
    /\ exec_attempt = Len(httpLog) + (IF pc = "recv" THEN 1 ELSE 0)
    /\ (ParseEnded /\ raised = Exc("JSONDecodeError") /\ httpLog = <<>>) => Len(parseLog) = 3
    /\ (ExecEnded /\ AllAttemptsFailed) => Len(httpLog) = 3
    /\ \A i \in 1..Len(httpLog) : (httpLog[i].ok => i \in 1..3)

\* Two tasks of a batch each used all 3 HTTP attempts, the second after a
\* first parse attempt of its own.
C13_Witness ==
    /\ call = "batch"
    /\ pc = "done"
    /\ Len(taskLog) = 2
    /\ httpTotal = 6
    /\ Len(httpLog) = 3
    /\ parse_attempt = 1


WaitsGrow(w) ==
    /\ Len(w) <= 2
    /\ \A i \in 1..Len(w) : w[i] >= 2 /\ w[i] <= 10
    /\ \A i \in 1..(Len(w) - 1) : w[i + 1] = Min(2 * w[i], 10)

\* C14: in the parser and in the executor a wait happens only between a
\* failed attempt and the next attempt; each wait is between 2 and 10
\* seconds and doubles from one failed attempt to the next up to the ceiling;
\* no wait follows the 3rd attempt or a successful one, so a call waits at
\* most twice.
C14_WaitsOnlyBetweenAttempts ==
    /\ WaitsGrow(parseWaits)
    /\ WaitsGrow(execWaits)
    /\ Len(parseWaits) = (IF pc = "parse" THEN Len(parseLog) ELSE Max(0, Len(parseLog) - 1))
    /\ Len(execWaits) = (IF pc \in {"send", "recv"} THEN Len(httpLog)
                         ELSE Max(0, Len(httpLog) - 1))
    /\ \A i \in 1..Len(parseWaits) : ~JsonLoads(parseLog[i]).ok
    /\ \A i \in 1..Len(execWaits) : ~httpLog[i].ok
    /\ pc = "parse_wait" => (Len(parseLog) < 3 /\ ~JsonLoads(parseLog[Len(parseLog)]).ok)
    /\ pc = "exec_wait" => (Len(httpLog) < 3 /\ ~httpLog[Len(httpLog)].ok)
    /\ pc = "parse" => parse_attempt < 3
    /\ pc = "send" => exec_attempt < 3

\* The executor waited 2 s then 4 s and its third attempt succeeded, with no
\* wait after it.
C14_Witness ==
    /\ execWaits = <<2, 4>>
    /\ Len(httpLog) = 3
    /\ httpLog[3].ok
    /\ pc = "return"
    /\ now = start_time + 1


Has(f) == \E e \in parsed.fields : e.name = f
WellTyped(f) ==
    \E e \in parsed.fields :
        /\ e.name = f
        /\ e.type = (IF f \in {"method", "url"} THEN "str" ELSE "dict")
Validated == call = "validate" /\ stages = <<"validate">>

\* C15: validate_agent_output returns, for every mapping that has method and
\* url as strings and headers and body as mappings, a request whose four
\* fields equal the input's; for every mapping missing at least one of the
\* four fields it fails with a validation error and returns nothing.
C15_ValidatorContract ==
    Validated =>
       /\ (parsed.kind = "dict" /\ \A f \in {"method", "url", "headers", "body"} : WellTyped(f))
             => /\ pc = "send"
                /\ raised = NoExc
                /\ \A f \in {"method", "url", "headers", "body"} :
                      \E e \in parsed.fields : e.name = f /\ e.val = api_request[f]
       /\ (parsed.kind = "dict" /\ \E f \in {"method", "url", "headers", "body"} : ~Has(f))
             => /\ pc = "raise"
                /\ api_request = NoRequest
                /\ raised = Exc("ValidationError")
                /\ failure = raised

\* A well-typed POST mapping was validated into the request it describes.
C15_Witness ==
    /\ Validated
    /\ pc = "send"
    /\ api_request = [method |-> "POST", url |-> "https://a/x", headers |-> "{}",
                      body |-> "{k:1}"]


SameAsParsed(req) ==
    /\ parsed.kind = "dict"
    /\ \A f \in {"method", "url", "headers", "body"} :
          \E e \in parsed.fields : e.name = f /\ e.val = req[f]

\* C16: the request field of every envelope the executor returns equals the
\* request that was validated from the agent's output: method, url, headers
\* and body are the same at validation, at every HTTP attempt (first try and
\* retries alike) and in the returned envelope.
C16_EnvelopeEchoesValidatedRequest ==
    /\ api_request # NoRequest => SameAsParsed(api_request)
    /\ (httpLog # <<>> \/ inflight # NoRequest) => api_request # NoRequest
    /\ inflight # NoRequest => inflight = api_request
    /\ \A i \in 1..Len(httpLog) : httpLog[i].sent = api_request
    /\ envelope # NoEnvelope =>
          /\ envelope.request = api_request
          /\ httpLog # <<>> /\ httpLog[Len(httpLog)].sent = envelope.request
    /\ \A i \in 1..Len(taskLog) :
          taskLog[i].ok => (taskLog[i].envelope.request # NoRequest
                            /\ (i = idx => taskLog[i].envelope.request = api_request))
    /\ (call = "single" /\ pc = "done" /\ output.status = "returned")
          => output.text[1].env.request = api_request

\* A POST request with a body was sent twice, the first attempt failing, and
\* came back in the envelope as it was validated.
C16_Witness ==
    /\ Len(httpLog) = 2
    /\ ~httpLog[1].ok
    /\ httpLog[1].sent.body = "{k:1}"
    /\ envelope.request = [method |-> "POST", url |-> "https://a/y", headers |-> "{}",
                           body |-> "{k:1}"]
    /\ pc = "done"


BuiltFrom(handle, inst) ==
    /\ handle.model_name = inst.model_name
    /\ handle.system_prompt = (IF inst.documentation = Docs THEN Docs ELSE "base")

\* C17: the agent handle that initialize_agent gives to an instance is always
\* built from that instance's own model name and documentation, also when
\* instances with different configurations are used alternately; at most one
\* handle is memoised at any time; and repeated calls on the same instance
\* with no other instance used in between return the same handle without
\* building a new one.
C17_AgentHandleIsTheInstancesOwn ==
    /\ agentCalls # <<>> => BuiltFrom(agent, self)
    /\ \A i \in 1..Len(agentCalls) :
          /\ agentCalls[i].id \in 1..Len(Instances)
          /\ BuiltFrom(agentCalls[i].handle, Instances[agentCalls[i].id])
    /\ Len(cache) <= 1
    /\ \A i \in 1..Len(cache) : BuiltFrom(cache[i].handle, Instances[cache[i].key])
    /\ \A i \in 2..Len(agentCalls) :
          agentCalls[i].id = agentCalls[i - 1].id
             => (~agentCalls[i].built /\ agentCalls[i].handle = agentCalls[i - 1].handle)

\* Two differently configured instances were used alternately, then the
\* first one twice in a row.
C17_Witness ==
    /\ call = "agent"
    /\ Len(agentCalls) = 4
    /\ agentCalls[1].id = 1 /\ agentCalls[2].id = 2 /\ agentCalls[3].id = 1
    /\ agentCalls[4].id = 1
    /\ agentCalls[3].built /\ ~agentCalls[4].built
    /\ agent.model_name = DEFAULT_MODEL_NAME


\* C18: each HTTP attempt opens its own session and closes it before the
\* attempt ends, on success and on failure alike: at most one session is open
\* at any time, no session is used by a later attempt, and none is open once
\* execute_async_api_call has returned or failed.
C18_OneSessionPerAttempt ==
    /\ open_sessions \in {0, 1}
    /\ open_sessions = 1 <=> pc = "recv"
    /\ sessions_opened = Len(httpLog) + open_sessions
    /\ \A i \in 1..Len(httpLog) : httpLog[i].session = i
    /\ \A i, j \in 1..Len(httpLog) : i # j => httpLog[i].session # httpLog[j].session
    /\ ExecEnded => open_sessions = 0
    /\ pc \in {"return", "raise", "done", "loop"} => open_sessions = 0

\* Two attempts failed and closed their sessions; the third attempt has its
\* own session open.
C18_Witness ==
    /\ pc = "recv"
    /\ Len(httpLog) = 2
    /\ ~httpLog[1].ok /\ ~httpLog[2].ok
    /\ open_sessions = 1
    /\ sessions_opened = 3


LastAttempt == httpLog[Len(httpLog)]

\* C19: the elapsed_time of a returned envelope is non-negative and measures
\* only the attempt that succeeded, from the start of that attempt to the
\* arrival of its response: the start time is taken anew at every attempt, so
\* earlier failed attempts and the waits between attempts are not included.
C19_ElapsedIsTheSuccessfulAttempt ==
    /\ pc = "recv" => start_time = now
    /\ (httpLog # <<>> /\ pc # "recv") => start_time = LastAttempt.began
    /\ \A i \in 2..Len(httpLog) :
          httpLog[i].began = httpLog[i - 1].began + httpLog[i - 1].duration + execWaits[i - 1]
    /\ envelope # NoEnvelope =>
          /\ LastAttempt.ok
          /\ envelope.elapsed_time >= 0
          /\ envelope.elapsed_time = LastAttempt.duration
          /\ envelope.elapsed_time = now - LastAttempt.began

\* The third attempt succeeded at once after two slow failed attempts and 6 s
\* of waits: the envelope reports 0, not the 10 that went by.
C19_Witness ==
    /\ call = "execute"
    /\ Len(httpLog) = 3
    /\ httpLog[1].duration = 2 /\ httpLog[2].duration = 2
    /\ envelope # NoEnvelope
    /\ envelope.elapsed_time = 0
    /\ now = 15


\* Steps a task can still take, at most, before fluid_api_request has
\* returned or raised.
TaskRank ==
    CASE pc = "agent" -> 3 * EXEC_MAX_ATTEMPTS + 2 * PARSE_MAX_ATTEMPTS + 2
      [] pc = "parse" -> 3 * EXEC_MAX_ATTEMPTS + 1 + 2 * (PARSE_MAX_ATTEMPTS - parse_attempt)
      [] pc = "parse_wait" -> 3 * EXEC_MAX_ATTEMPTS + 2 + 2 * (PARSE_MAX_ATTEMPTS - parse_attempt)
      [] pc = "validate" -> 3 * EXEC_MAX_ATTEMPTS + 1
      [] pc = "send" -> 3 * (EXEC_MAX_ATTEMPTS - exec_attempt)
      [] pc = "recv" -> 3 * (EXEC_MAX_ATTEMPTS - exec_attempt) + 2
      [] pc = "exec_wait" -> 3 * (EXEC_MAX_ATTEMPTS - exec_attempt) + 1
      [] pc \in {"return", "raise"} -> 1
      [] OTHER -> 0
TaskMax == 3 * EXEC_MAX_ATTEMPTS + 2 * PARSE_MAX_ATTEMPTS + 3

\* Steps the whole call can still take, at most.
Rank ==
    IF pc = "done" THEN 0
    ELSE IF call = "batch"
    THEN CASE pc = "call" -> TaskMax * Len(args.tasks) + 2
           [] pc = "loop" -> TaskMax * (Len(args.tasks) - idx + 1) + 1
           [] OTHER -> TaskMax * (Len(args.tasks) - idx) + 1 + TaskRank
    ELSE IF pc = "call" THEN TaskMax ELSE TaskRank

Done == pc = "done"
NothingPending ==
    /\ active = {}
    /\ inflight = NoRequest
    /\ open_sessions = 0
    /\ output.status \in {"returned", "raised"}
    /\ call = "batch" => (output.status = "returned" /\ Len(taskLog) = Len(args.tasks))
    /\ call = "single" => Len(taskLog) = 1

\* C20: provided every agent call and every HTTP attempt eventually returns
\* or fails, batch_fluid_api_request on a finite task list eventually returns
\* and the single-task pipeline eventually returns an envelope or raises: the
\* number of steps still to take is a natural number that every step
\* decreases, a call that is not over always has a next step, and when it is
\* over no task is left pending.
C20_Terminates ==
    /\ [](Rank >= 0)
    /\ [](~Done => ENABLED Next)
    /\ [](Done => NothingPending)
    /\ [][Rank' < Rank]_vars
    /\ <>Done

\* A batch of two tasks returned after its last task used all its HTTP
\* attempts.
C20_Witness ==
    /\ call = "batch"
    /\ Done
    /\ Len(args.tasks) = 2
    /\ Len(taskLog) = 2
    /\ Len(httpLog) = 3
    /\ output.status = "returned"

====
